---- MODULE Spec2Model ----
(***************************************************************************)
(* Model of package xerrs (src/xerrs.go, the package-level API): the       *)
(* constructors New, Errorf, Extend and Mask, the public message Error(),  *)
(* Cause, IsEqual, the data operations GetData and SetData, Stack and      *)
(* Details, and the display transformation callers apply to a stack.       *)
(*                                                                         *)
(* The Go heap of *xerr values is the sequence `heap`; an `error`          *)
(* interface value is nil, a plain error (errors.New / fmt.Errorf, an      *)
(* opaque value exposing a message) or a pointer to an *xerr in the heap.  *)
(* Strings are sequences of pieces of text (a character, a separator, a   *)
(* name), so that concatenation, splitting and comparison are computed as  *)
(* they are in Go.  Every library function is an                           *)
(* operator from the heap and its arguments to the heap after the call     *)
(* and the value returned; the actions apply them to arguments drawn from  *)
(* the values the caller holds.  Wrap and Wrapf, which the tests call but  *)
(* this source does not define, follow the specification of the package.  *)
(* SetData called from two goroutines is a sequence of the steps of its    *)
(* body (the nil test, make, the map assignment), recorded in `race`.      *)
(***************************************************************************)
EXTENDS Integers, Sequences, FiniteSets, TLC

VARIABLES heap, last, masked, written, race

vars == <<heap, last, masked, written, race>>

\* ---------------------------------------------------------------- bounds
MaxNodes == 2

MaxDepth == 2

\* ---------------------------------------------------------------- inputs
Msgs == {<<"A">>, <<"B">>}

Keys == {"k", "K"}

DataValues == {1, 2}

\* (format, args) pairs handed to Errorf
FormatCalls ==
    { [format |-> <<"%v">>, args |-> <<(<<"A">>)>>],
      [format |-> <<"B">>, args |-> <<>>] }

\* ---------------------------------------------------------------- values
\* the nil error interface value
NIL == [kind |-> "nil", msg |-> <<>>, id |-> 0]

\* errors.New(message): a plain error exposing a message
Plain(m) == [kind |-> "plain", msg |-> m, id |-> 0]

\* a non-nil *xerr: the pointer to heap cell i
Ref(i) == [kind |-> "xerr", msg |-> <<>>, id |-> i]

\* err.(*xerr) succeeds
IsXerr(e) == e.kind = "xerr"

\* a nil map[string]interface{}
NilData == [alloc |-> FALSE, kv |-> {}]

\* make(map[string]interface{})
MakeData == [alloc |-> TRUE, kv |-> {}]

\* the struct xerr
Xerr(d, c, m, s) == [data |-> d, cause |-> c, mask |-> m, stack |-> s]

\* every error value a caller can hold in heap h
ErrorValues(h) ==
    {NIL} \cup {Plain(m) : m \in Msgs} \cup {Ref(i) : i \in 1..Len(h)}

\* the non-nil error values a caller can hold
NonNil(h) == ErrorValues(h) \ {NIL}

\* ---------------------------------------------------------------- stacks
\* One frame of the calling program, innermost numbering: frame 1 is main.
Frame(i) ==
    [ Function |-> IF i = 1 THEN <<"main", "/", "main.main">>
                            ELSE <<"app", "/", "pkg.f">>,
      File |-> <<"/", "src", "/", "main.go">>,
      Line |-> 10 * i ]

RECURSIVE CallerFrames(_)
\* the frames of a caller at call depth d, innermost first, main last
CallerFrames(d) == IF d = 0 THEN <<>> ELSE <<Frame(d)>> \o CallerFrames(d - 1)

\* the call stacks from which the library is entered
CallerStacks == {CallerFrames(d) : d \in 1..MaxDepth}

\* the library entered directly from main
MainStack == {CallerFrames(1)}

\* the library entered from main or from the deepest caller
EndStacks == {CallerFrames(1), CallerFrames(MaxDepth)}

\* the plain errors
PlainErrors == {Plain(m) : m \in Msgs}

\* the plain errors and nil
PlainValues == {NIL} \cup {Plain(m) : m \in Msgs}

\* a frame of the library itself
LibFrame(fn) ==
    [ Function |-> <<"xerrs", "/", fn>>,
      File |-> <<"/", "src", "/", "xerrs.go">>,
      Line |-> 1 ]

stackFunctionOffset == 2

\* getStack that starts one level too far out and loses the caller
getStackSkippingCaller(skip, fn, callers) ==
    LET frames == <<LibFrame("getStack"), LibFrame(fn)>> \o callers
    IN  IF skip + 1 >= Len(frames) THEN <<>>
        ELSE SubSeq(frames, skip + 2, Len(frames))

\* getStack(skip), called from library function fn entered from callers:
\* runtime.Caller(skip + i) for i = 0, 1, ... until it reports !ok.
\* Level 0 is getStack itself, level 1 is fn, level 2 the caller of fn.
getStack(skip, fn, callers) ==
    LET frames == <<LibFrame("getStack"), LibFrame(fn)>> \o callers
    IN  IF skip >= Len(frames) THEN <<>>
        ELSE SubSeq(frames, skip + 1, Len(frames))

\* ---------------------------------------------------------------- Error()
Diverges == [st |-> "diverges", msg |-> <<>>]

NilDeref == [st |-> "panic", msg |-> <<>>]

Returns(m) == [st |-> "ok", msg |-> m]

RECURSIVE ErrorFrom(_, _, _)

\* Error() that lets the cause through once data is attached
ErrorLeakingCause(h, e, active) ==
    IF e.kind = "nil" THEN NilDeref
    ELSE IF e.kind = "plain" THEN Returns(e.msg)
    ELSE IF e.id \in active THEN Diverges
    ELSE LET x == h[e.id]
         IN  IF x.mask = NIL \/ x.data.alloc
             THEN ErrorFrom(h, x.cause, active \cup {e.id})
             ELSE ErrorFrom(h, x.mask, active \cup {e.id})

\* Error() that forgets the mask: it always answers with the cause
ErrorIgnoringMask(h, e, active) ==
    IF e.kind = "nil" THEN NilDeref
    ELSE IF e.kind = "plain" THEN Returns(e.msg)
    ELSE IF e.id \in active THEN Diverges
    ELSE ErrorFrom(h, h[e.id].cause, active \cup {e.id})

\* Error() that, without a mask of its own, answers with the message the
\* cause was made with, whatever mask the cause has since
ErrorPastInnerMasks(h, e, active) ==
    IF e.kind = "nil" THEN NilDeref
    ELSE IF e.kind = "plain" THEN Returns(e.msg)
    ELSE IF e.id \in active THEN Diverges
    ELSE LET x == h[e.id]
         IN  IF x.mask = NIL
             THEN ErrorIgnoringMask(h, x.cause, active \cup {e.id})
             ELSE ErrorFrom(h, x.mask, active \cup {e.id})

\* err.Error() evaluated in heap h; `active` are the *xerr whose Error() call
\* is already on the goroutine's stack.  The heap does not change during the
\* call, so re-entering an active *xerr repeats for ever (the goroutine's
\* stack overflows and the program dies).
ErrorFrom(h, e, active) ==
    IF e.kind = "nil" THEN NilDeref
    ELSE IF e.kind = "plain" THEN Returns(e.msg)
    ELSE IF e.id \in active THEN Diverges
    ELSE LET x == h[e.id]
         IN  IF x.mask = NIL
             THEN ErrorFrom(h, x.cause, active \cup {e.id})
             ELSE ErrorFrom(h, x.mask, active \cup {e.id})

\* err.Error()
Error(h, e) == ErrorFrom(h, e, {})

\* ---------------------------------------------------------------- construction
\* the heap after allocating &xerr{...}, and the pointer to it
Alloc(h, x) == [heap |-> Append(h, x), ret |-> Ref(Len(h) + 1)]

\* New(message)
New(h, message, callers) ==
    Alloc(h, Xerr(NilData, Plain(message), NIL,
                  getStack(stackFunctionOffset, "New", callers)))

RECURSIVE Sprintf(_, _)
\* fmt.Sprintf(format, args...) for the verb %v over string arguments
Sprintf(format, args) ==
    IF format = <<>> THEN <<>>
    ELSE IF Head(format) = "%v"
         THEN IF args = <<>>
              THEN <<"%!v(MISSING)">> \o Sprintf(Tail(format), args)
              ELSE Head(args) \o Sprintf(Tail(format), Tail(args))
         ELSE <<Head(format)>> \o Sprintf(Tail(format), args)

\* Errorf that keeps the format as the message and drops the arguments
ErrorfUnformatted(h, format, args, callers) ==
    Alloc(h, Xerr(NilData, Plain(format), NIL,
                  getStack(stackFunctionOffset, "Errorf", callers)))

\* Errorf(format, args...)
Errorf(h, format, args, callers) ==
    Alloc(h, Xerr(NilData, Plain(Sprintf(format, args)), NIL,
                  getStack(stackFunctionOffset, "Errorf", callers)))

\* Extend without its nil check: it wraps "nothing failed"
ExtendWrappingNil(h, err, callers) ==
    Alloc(h, Xerr(NilData, err, NIL,
                  getStack(stackFunctionOffset, "Extend", callers)))

\* Extend(err)
Extend(h, err, callers) ==
    IF err = NIL THEN [heap |-> h, ret |-> NIL]
    ELSE Alloc(h, Xerr(NilData, err, NIL,
                       getStack(stackFunctionOffset, "Extend", callers)))

\* Mask that leaves an *xerr alone and wraps it in a new one
MaskAlwaysWrapping(h, err, mask, callers) ==
    IF err = NIL THEN [heap |-> h, ret |-> NIL]
    ELSE Alloc(h, Xerr(NilData, err, mask,
                       getStack(stackFunctionOffset, "Mask", callers)))

\* Mask that keeps the mask an *xerr already has (first write wins)
MaskKeepingFirst(h, err, mask, callers) ==
    IF err = NIL THEN [heap |-> h, ret |-> NIL]
    ELSE IF IsXerr(err)
         THEN [heap |-> IF h[err.id].mask = NIL
                        THEN [h EXCEPT ![err.id].mask = mask]
                        ELSE h,
               ret |-> err]
         ELSE Alloc(h, Xerr(NilData, err, mask,
                            getStack(stackFunctionOffset, "Mask", callers)))

\* Mask that resets the data of the *xerr it masks
MaskDroppingData(h, err, mask, callers) ==
    IF err = NIL THEN [heap |-> h, ret |-> NIL]
    ELSE IF IsXerr(err)
         THEN [heap |-> [h EXCEPT ![err.id].mask = mask,
                                  ![err.id].data = NilData],
               ret |-> err]
         ELSE Alloc(h, Xerr(NilData, err, mask,
                            getStack(stackFunctionOffset, "Mask", callers)))

\* Mask that leaves an *xerr as it is when the mask is nil
MaskIgnoringNil(h, err, mask, callers) ==
    IF err = NIL THEN [heap |-> h, ret |-> NIL]
    ELSE IF IsXerr(err)
         THEN [heap |-> IF mask = NIL THEN h
                        ELSE [h EXCEPT ![err.id].mask = mask],
               ret |-> err]
         ELSE Alloc(h, Xerr(NilData, err, mask,
                            getStack(stackFunctionOffset, "Mask", callers)))

\* Mask that redirects the cause of an *xerr where the code sets its mask
MaskRedirectingCause(h, err, mask, callers) ==
    IF err = NIL THEN [heap |-> h, ret |-> NIL]
    ELSE IF IsXerr(err)
         THEN [heap |-> IF mask = NIL THEN h
                        ELSE [h EXCEPT ![err.id].cause = mask],
               ret |-> err]
         ELSE Alloc(h, Xerr(NilData, err, mask,
                            getStack(stackFunctionOffset, "Mask", callers)))

\* Mask without its nil check: it wraps "nothing failed" under the mask
MaskWrappingNil(h, err, mask, callers) ==
    IF IsXerr(err)
    THEN [heap |-> [h EXCEPT ![err.id].mask = mask], ret |-> err]
    ELSE Alloc(h, Xerr(NilData, err, mask,
                       getStack(stackFunctionOffset, "Mask", callers)))

\* Mask(err, mask)
Mask(h, err, mask, callers) ==
    IF err = NIL THEN [heap |-> h, ret |-> NIL]
    ELSE IF IsXerr(err)
         THEN [heap |-> [h EXCEPT ![err.id].mask = mask], ret |-> err]
         ELSE Alloc(h, Xerr(NilData, err, mask,
                            getStack(stackFunctionOffset, "Mask", callers)))

\* ---------------------------------------------------------------- wrapping
\* Wrap and Wrapf belong to the iteration of the package whose tests are
\* kept (TestWrap, TestWrapf) and whose implementation is not: they follow
\* the specification of the structured error value.  A wrapping error is an
\* *xerr with one more field, wrapMessage, the annotation put before the
\* rendered message of its cause.
HasWrap(x) == "wrapMessage" \in DOMAIN x

\* Wrap(err, message)
Wrap(h, err, message, callers) ==
    IF err = NIL THEN [heap |-> h, ret |-> NIL]
    ELSE Alloc(h, [ data |-> NilData, cause |-> err, mask |-> NIL,
                    stack |-> getStack(stackFunctionOffset, "Wrap", callers),
                    wrapMessage |-> message ])

\* Wrapf(err, format, args...)
Wrapf(h, err, format, args, callers) ==
    IF err = NIL THEN [heap |-> h, ret |-> NIL]
    ELSE Alloc(h, [ data |-> NilData, cause |-> err, mask |-> NIL,
                    stack |-> getStack(stackFunctionOffset, "Wrapf", callers),
                    wrapMessage |-> Sprintf(format, args) ])

\* the annotation put before an inner message that was rendered
Prefixed(message, inner) ==
    IF inner.st = "ok" THEN Returns(message \o <<": ">> \o inner.msg) ELSE inner

RECURSIVE MessageFrom(_, _, _)

\* message resolution in which a wrap annotation replaces the inner message,
\* as a mask does
MessageHidingInner(h, e, active) ==
    IF e.kind = "nil" THEN NilDeref
    ELSE IF e.kind = "plain" THEN Returns(e.msg)
    ELSE IF e.id \in active THEN Diverges
    ELSE LET x == h[e.id]
         IN  IF x.mask # NIL THEN MessageFrom(h, x.mask, active \cup {e.id})
             ELSE IF HasWrap(x) THEN Returns(x.wrapMessage)
             ELSE MessageFrom(h, x.cause, active \cup {e.id})

\* message resolution of that iteration: the mask's message when a mask is
\* set, else the annotation, ": " and the resolved message of the cause when
\* an annotation is set, else the resolved message of the cause
MessageFrom(h, e, active) ==
    IF e.kind = "nil" THEN NilDeref
    ELSE IF e.kind = "plain" THEN Returns(e.msg)
    ELSE IF e.id \in active THEN Diverges
    ELSE LET x == h[e.id]
         IN  IF x.mask # NIL THEN MessageFrom(h, x.mask, active \cup {e.id})
             ELSE IF HasWrap(x)
                  THEN Prefixed(x.wrapMessage,
                                MessageFrom(h, x.cause, active \cup {e.id}))
             ELSE MessageFrom(h, x.cause, active \cup {e.id})

\* err.Error() in that iteration
Message(h, e) == MessageFrom(h, e, {})

\* ---------------------------------------------------------------- inspection
\* Cause that unwraps a second level when the cause is an *xerr itself
CauseTwoLevels(h, err) ==
    IF ~IsXerr(err) THEN err
    ELSE IF IsXerr(h[err.id].cause) THEN h[h[err.id].cause.id].cause
    ELSE h[err.id].cause

\* Cause(err)
Cause(h, err) == IF IsXerr(err) THEN h[err.id].cause ELSE err

\* IsEqual whose nil test answers true as soon as one side is nil
IsEqualNilIsAnything(h, err1, err2) ==
    LET cause1 == Cause(h, err1)
        cause2 == Cause(h, err2)
    IN  IF cause1 = NIL \/ cause2 = NIL THEN [st |-> "ok", val |-> TRUE]
        ELSE LET m1 == Error(h, cause1)
                 m2 == Error(h, cause2)
             IN  IF m1.st # "ok" THEN [st |-> m1.st, val |-> FALSE]
                 ELSE IF m2.st # "ok" THEN [st |-> m2.st, val |-> FALSE]
                 ELSE [st |-> "ok", val |-> (m1.msg = m2.msg)]

\* IsEqual(err1, err2): the value returned, or how the call ends otherwise
IsEqual(h, err1, err2) ==
    LET cause1 == Cause(h, err1)
        cause2 == Cause(h, err2)
    IN  IF cause1 = NIL /\ cause2 = NIL THEN [st |-> "ok", val |-> TRUE]
        ELSE IF cause1 = NIL \/ cause2 = NIL THEN [st |-> "ok", val |-> FALSE]
        ELSE LET m1 == Error(h, Cause(h, err1))
                 m2 == Error(h, Cause(h, err2))
             IN  IF m1.st # "ok" THEN [st |-> m1.st, val |-> FALSE]
                 ELSE IF m2.st # "ok" THEN [st |-> m2.st, val |-> FALSE]
                 ELSE [st |-> "ok", val |-> (m1.msg = m2.msg)]

\* the nil interface{} value
NilValue == 0

\* d[name] on a Go map: the value and whether the key is present
MapIndex(d, name) ==
    IF \E p \in d.kv : p[1] = name
    THEN [value |-> (CHOOSE p \in d.kv : p[1] = name)[2], ok |-> TRUE]
    ELSE [value |-> NilValue, ok |-> FALSE]

\* a map assignment that drops the other keys
MapAssignReplacing(d, name, value) == [d EXCEPT !.kv = {<<name, value>>}]

\* d[name] = value on an allocated Go map
MapAssign(d, name, value) ==
    [d EXCEPT !.kv = {p \in d.kv : p[1] # name} \cup {<<name, value>>}]

\* GetData(err, name)
GetData(h, err, name) ==
    IF ~IsXerr(err) THEN [value |-> NilValue, ok |-> FALSE]
    ELSE LET x == h[err.id]
         IN  IF ~x.data.alloc THEN [value |-> NilValue, ok |-> FALSE]
             ELSE MapIndex(x.data, name)

\* SetData that makes a new container on every call
SetDataRemaking(h, err, name, value) ==
    IF IsXerr(err)
    THEN [h EXCEPT ![err.id].data = MapAssign(MakeData, name, value)]
    ELSE h

\* SetData(err, name, value)
SetData(h, err, name, value) ==
    IF IsXerr(err)
    THEN LET d == IF h[err.id].data.alloc THEN h[err.id].data ELSE MakeData
         IN  [h EXCEPT ![err.id].data = MapAssign(d, name, value)]
    ELSE h

\* A []StackLocation held by a caller is nil or a slice onto the array of
\* locations that getStack built for one *xerr; the field `stack` of heap
\* cell i holds the elements of that array, and the slice stored in the
\* field, which getStack never leaves nil, is StackOf(i).
NilSlice == [nil |-> TRUE, array |-> 0]

StackOf(i) == [nil |-> FALSE, array |-> i]

\* the elements read through slice s in heap h
Elements(h, s) == IF s.nil THEN <<>> ELSE h[s.array].stack

\* Stack that answers with an empty slice where the code answers nil
StackNeverNil(h, err) == IF IsXerr(err) THEN StackOf(err.id) ELSE StackOf(0)

\* Stack(err): the slice stored in the *xerr itself, not a copy of it
Stack(h, err) == IF IsXerr(err) THEN StackOf(err.id) ELSE NilSlice

\* ---------------------------------------------------------------- Details
\* the decimal digits of a number that is not negative
Digits == <<"0", "1", "2", "3", "4", "5", "6", "7", "8", "9">>

RECURSIVE Itoa(_)
\* what the verb %d prints for n >= 0
Itoa(n) == IF n < 10 THEN <<Digits[n + 1]>>
           ELSE Itoa(n \div 10) \o <<Digits[(n % 10) + 1]>>

\* location.String(): "%s [%s:%d]"
String(location) ==
    Sprintf(<<"%v", " [", "%v", ":", "%v", "]">>,
            <<location.Function, location.File, Itoa(location.Line)>>)

RECURSIVE Join(_, _)
\* strings.Join(elems, sep)
Join(elems, sep) ==
    IF elems = <<>> THEN <<>>
    ELSE IF Len(elems) = 1 THEN elems[1]
    ELSE elems[1] \o <<sep>> \o Join(Tail(elems), sep)

\* a slice indexed outside its length: the runtime panics
IndexOutOfRange == [st |-> "index out of range", msg |-> <<>>]

\* the bound of the loop over x.stack that ignores the length of the stack
TopUnclamped(maxStack, len) == maxStack

\* top: the bound of the loop over x.stack, which reads x.stack[0..top-1]
Top(maxStack, len) == IF maxStack > len THEN len ELSE maxStack

\* Details that frames the message of a plain error as an [ERROR] line
DetailsFramingPlain(h, err, maxStack) ==
    IF err = NIL THEN Returns(<<>>)
    ELSE IF ~IsXerr(err)
         THEN Returns(Join(<<<<>>, Sprintf(<<"[ERROR] ", "%v">>, <<err.msg>>)>>,
                           "\n"))
    ELSE LET x == h[err.id]
             c == Error(h, x.cause)
             m == Error(h, x.mask)
         IN  IF c.st # "ok" THEN c
             ELSE IF x.mask # NIL /\ m.st # "ok" THEN m
             ELSE LET first == <<<<>>, Sprintf(<<"[ERROR] ", "%v">>, <<c.msg>>)>>
                      result ==
                          IF x.mask # NIL /\ c.msg # m.msg
                          THEN Append(first,
                                      Sprintf(<<"[MASK ERROR] ", "%v">>, <<m.msg>>))
                          ELSE first
                      top == Top(maxStack, Len(x.stack))
                      entries == IF top <= 0 THEN <<>>
                                 ELSE [i \in 1..top |-> String(x.stack[i])]
                  IN  IF Len(x.stack) = 0 THEN Returns(Join(result, "\n"))
                      ELSE IF \E i \in 0..(top - 1) : i \notin 0..(Len(x.stack) - 1)
                           THEN IndexOutOfRange
                      ELSE Returns(Join(result \o <<(<<"[STACK]:">>)>> \o entries,
                                        "\n"))

\* Details that prints the mask line whenever a mask is set
DetailsAlwaysMaskLine(h, err, maxStack) ==
    IF err = NIL THEN Returns(<<>>)
    ELSE IF ~IsXerr(err) THEN Error(h, err)
    ELSE LET x == h[err.id]
             c == Error(h, x.cause)
             m == Error(h, x.mask)
         IN  IF c.st # "ok" THEN c
             ELSE IF x.mask # NIL /\ m.st # "ok" THEN m
             ELSE LET first == <<<<>>, Sprintf(<<"[ERROR] ", "%v">>, <<c.msg>>)>>
                      result ==
                          IF x.mask # NIL
                          THEN Append(first,
                                      Sprintf(<<"[MASK ERROR] ", "%v">>, <<m.msg>>))
                          ELSE first
                      top == Top(maxStack, Len(x.stack))
                      entries == IF top <= 0 THEN <<>>
                                 ELSE [i \in 1..top |-> String(x.stack[i])]
                  IN  IF Len(x.stack) = 0 THEN Returns(Join(result, "\n"))
                      ELSE IF \E i \in 0..(top - 1) : i \notin 0..(Len(x.stack) - 1)
                           THEN IndexOutOfRange
                      ELSE Returns(Join(result \o <<(<<"[STACK]:">>)>> \o entries,
                                        "\n"))

\* Details that prints the whole stack whatever maxStack is
DetailsWholeStack(h, err, maxStack) ==
    IF err = NIL THEN Returns(<<>>)
    ELSE IF ~IsXerr(err) THEN Error(h, err)
    ELSE LET x == h[err.id]
             c == Error(h, x.cause)
             m == Error(h, x.mask)
         IN  IF c.st # "ok" THEN c
             ELSE IF x.mask # NIL /\ m.st # "ok" THEN m
             ELSE LET first == <<<<>>, Sprintf(<<"[ERROR] ", "%v">>, <<c.msg>>)>>
                      result ==
                          IF x.mask # NIL /\ c.msg # m.msg
                          THEN Append(first,
                                      Sprintf(<<"[MASK ERROR] ", "%v">>, <<m.msg>>))
                          ELSE first
                      top == Len(x.stack)
                      entries == IF top <= 0 THEN <<>>
                                 ELSE [i \in 1..top |-> String(x.stack[i])]
                  IN  IF Len(x.stack) = 0 THEN Returns(Join(result, "\n"))
                      ELSE IF \E i \in 0..(top - 1) : i \notin 0..(Len(x.stack) - 1)
                           THEN IndexOutOfRange
                      ELSE Returns(Join(result \o <<(<<"[STACK]:">>)>> \o entries,
                                        "\n"))

\* Details whose [ERROR] line shows the message the chain of causes began
\* with, whatever masks the causes have
DetailsOfFirstCause(h, err, maxStack) ==
    IF err = NIL THEN Returns(<<>>)
    ELSE IF ~IsXerr(err) THEN Error(h, err)
    ELSE LET x == h[err.id]
             c == ErrorIgnoringMask(h, x.cause, {})
             m == Error(h, x.mask)
         IN  IF c.st # "ok" THEN c
             ELSE IF x.mask # NIL /\ m.st # "ok" THEN m
             ELSE LET first == <<<<>>, Sprintf(<<"[ERROR] ", "%v">>, <<c.msg>>)>>
                      result ==
                          IF x.mask # NIL /\ c.msg # m.msg
                          THEN Append(first,
                                      Sprintf(<<"[MASK ERROR] ", "%v">>, <<m.msg>>))
                          ELSE first
                      top == Top(maxStack, Len(x.stack))
                      entries == IF top <= 0 THEN <<>>
                                 ELSE [i \in 1..top |-> String(x.stack[i])]
                  IN  IF Len(x.stack) = 0 THEN Returns(Join(result, "\n"))
                      ELSE IF \E i \in 0..(top - 1) : i \notin 0..(Len(x.stack) - 1)
                           THEN IndexOutOfRange
                      ELSE Returns(Join(result \o <<(<<"[STACK]:">>)>> \o entries,
                                        "\n"))

\* Details(err, maxStack): the string returned, or how the call ends when an
\* Error() it calls does not return or an index is out of range
Details(h, err, maxStack) ==
    IF err = NIL THEN Returns(<<>>)
    ELSE IF ~IsXerr(err) THEN Error(h, err)
    ELSE LET x == h[err.id]
             c == Error(h, x.cause)
             m == Error(h, x.mask)
         IN  IF c.st # "ok" THEN c
             ELSE IF x.mask # NIL /\ m.st # "ok" THEN m
             ELSE LET first == <<<<>>, Sprintf(<<"[ERROR] ", "%v">>, <<c.msg>>)>>
                      result ==
                          IF x.mask # NIL /\ c.msg # m.msg
                          THEN Append(first,
                                      Sprintf(<<"[MASK ERROR] ", "%v">>, <<m.msg>>))
                          ELSE first
                      top == Top(maxStack, Len(x.stack))
                      entries == IF top <= 0 THEN <<>>
                                 ELSE [i \in 1..top |-> String(x.stack[i])]
                  IN  IF Len(x.stack) = 0 THEN Returns(Join(result, "\n"))
                      ELSE IF \E i \in 0..(top - 1) : i \notin 0..(Len(x.stack) - 1)
                           THEN IndexOutOfRange
                      ELSE Returns(Join(result \o <<(<<"[STACK]:">>)>> \o entries,
                                        "\n"))

\* ---------------------------------------------------------------- calls
\* A call of an inspection operation as the caller sees it: the heap after
\* the call and the value returned.  None of the six functions assigns to a
\* field of an *xerr or to a map.
ErrorCall(h, e) == [heap |-> h, ret |-> Error(h, e)]

CauseCall(h, err) == [heap |-> h, ret |-> Cause(h, err)]

IsEqualCall(h, err1, err2) == [heap |-> h, ret |-> IsEqual(h, err1, err2)]

\* GetData that makes the container it does not find, as SetData does
GetDataMaking(h, err, name) ==
    [ heap |-> IF IsXerr(err) /\ ~h[err.id].data.alloc
               THEN [h EXCEPT ![err.id].data = MakeData]
               ELSE h,
      ret |-> GetData(h, err, name) ]

GetDataCall(h, err, name) == [heap |-> h, ret |-> GetData(h, err, name)]

StackCall(h, err) == [heap |-> h, ret |-> Stack(h, err)]

DetailsCall(h, err, maxStack) == [heap |-> h, ret |-> Details(h, err, maxStack)]

\* ---------------------------------------------------------------- callers
RECURSIVE Split(_, _)
\* strings.Split(str, sep) for a separator of one character
Split(str, sep) ==
    IF \A j \in 1..Len(str) : str[j] # sep THEN <<str>>
    ELSE LET j == CHOOSE j \in 1..Len(str) :
                      str[j] = sep /\ \A k \in 1..(j - 1) : str[k] # sep
         IN  <<SubSeq(str, 1, j - 1)>> \o Split(SubSeq(str, j + 1, Len(str)), sep)

\* getLastPathPart(str) of the tests: the part after the last "/"
getLastPathPart(str) ==
    LET parts == Split(str, "/")
    IN  IF Len(parts) = 0 THEN <<>> ELSE parts[Len(parts)]

\* transformStack(stack) of the tests: a display transformation that strips
\* the paths, assigning to the elements of the slice it is given
transformStack(h, stack) ==
    IF stack.nil THEN [heap |-> h, ret |-> stack]
    ELSE LET old == h[stack.array].stack
             new == [j \in 1..Len(old) |->
                        [ Function |-> getLastPathPart(old[j].Function),
                          File |-> getLastPathPart(old[j].File),
                          Line |-> old[j].Line ]]
         IN  [heap |-> [h EXCEPT ![stack.array].stack = new], ret |-> stack]

\* ---------------------------------------------------------------- the program
\* `last` records the latest library call: its name, the error it returned
\* (nil for SetData, which returns nothing) and, for a Mask call on an *xerr,
\* the mask that *xerr had before the call (nil otherwise).
\* `masked[i]` records the mask argument of the latest Mask call that was
\* applied to *xerr i (nil when none was), and `written[i]` the (key, value)
\* of the latest SetData call on *xerr i for each key: the history of calls,
\* kept beside the heap that the code builds from them.
Call(op, ret, prev) == [op |-> op, ret |-> ret, prev |-> prev]

\* `race` is the position of two goroutines that call SetData on the same
\* *xerr without synchronization (see the section on concurrent SetData).
Threads == {1, 2}

NoRace ==
    [ target |-> 0,
      pc |-> [t \in Threads |-> "idle"],
      held |-> [t \in Threads |-> 0],
      cur |-> 0,
      made |-> {},
      overlap |-> FALSE ]

Init ==
    /\ heap = <<>>
    /\ last = Call("none", NIL, NIL)
    /\ masked = <<>>
    /\ written = <<>>
    /\ race = NoRace

\* a call of New(m) from one of the call stacks
NewStep(msgs, stacks) ==
    \E m \in msgs, c \in stacks :
        /\ Len(heap) < MaxNodes
        /\ LET r == New(heap, m, c)
           IN  /\ heap' = r.heap
               /\ last' = Call("New", r.ret, NIL)
        /\ masked' = Append(masked, NIL)
        /\ written' = Append(written, {})
        /\ UNCHANGED race

\* a call of Errorf(format, args...)
ErrorfStep(calls, stacks) ==
    \E f \in calls, c \in stacks :
        /\ Len(heap) < MaxNodes
        /\ LET r == Errorf(heap, f.format, f.args, c)
           IN  /\ heap' = r.heap
               /\ last' = Call("Errorf", r.ret, NIL)
        /\ masked' = Append(masked, NIL)
        /\ written' = Append(written, {})
        /\ UNCHANGED race

\* a call of Extend(err) on any error value the caller holds
ExtendStep(stacks) ==
    \E err \in ErrorValues(heap), c \in stacks :
        /\ err = NIL \/ Len(heap) < MaxNodes
        /\ LET r == Extend(heap, err, c)
           IN  /\ heap' = r.heap
               /\ last' = Call("Extend", r.ret, NIL)
        /\ masked' = IF err = NIL THEN masked ELSE Append(masked, NIL)
        /\ written' = IF err = NIL THEN written ELSE Append(written, {})
        /\ UNCHANGED race

\* a call of Mask(err, mask), the mask drawn from masks
MaskStep(masks, stacks) ==
    \E err \in ErrorValues(heap), mask \in masks, c \in stacks :
        /\ err = NIL \/ IsXerr(err) \/ Len(heap) < MaxNodes
        /\ LET r == Mask(heap, err, mask, c)
           IN  /\ heap' = r.heap
               /\ last' = Call("Mask", r.ret,
                                IF IsXerr(err) THEN heap[err.id].mask ELSE NIL)
        /\ masked' = IF err = NIL THEN masked
                     ELSE IF IsXerr(err) THEN [masked EXCEPT ![err.id] = mask]
                     ELSE Append(masked, mask)
        /\ written' = IF err = NIL \/ IsXerr(err) THEN written
                      ELSE Append(written, {})
        /\ UNCHANGED race

\* a call of SetData(err, k, v)
SetDataStep(keys, values) ==
    \E err \in ErrorValues(heap), k \in keys, v \in values :
        /\ heap' = SetData(heap, err, k, v)
        /\ last' = Call("SetData", NIL, NIL)
        /\ written' = IF IsXerr(err)
                      THEN [written EXCEPT ![err.id] =
                               {p \in @ : p[1] # k} \cup {<<k, v>>}]
                      ELSE written
        /\ UNCHANGED masked
        /\ UNCHANGED race

\* a call of Wrap(err, message) on any error value the caller holds
WrapStep(msgs, stacks) ==
    \E err \in ErrorValues(heap), m \in msgs, c \in stacks :
        /\ err = NIL \/ Len(heap) < MaxNodes
        /\ LET r == Wrap(heap, err, m, c)
           IN  /\ heap' = r.heap
               /\ last' = Call("Wrap", r.ret, NIL)
        /\ masked' = IF err = NIL THEN masked ELSE Append(masked, NIL)
        /\ written' = IF err = NIL THEN written ELSE Append(written, {})
        /\ UNCHANGED race

\* a call of Wrapf(err, format, args...)
WrapfStep(calls, stacks) ==
    \E err \in ErrorValues(heap), f \in calls, c \in stacks :
        /\ err = NIL \/ Len(heap) < MaxNodes
        /\ LET r == Wrapf(heap, err, f.format, f.args, c)
           IN  /\ heap' = r.heap
               /\ last' = Call("Wrapf", r.ret, NIL)
        /\ masked' = IF err = NIL THEN masked ELSE Append(masked, NIL)
        /\ written' = IF err = NIL THEN written ELSE Append(written, {})
        /\ UNCHANGED race

\* a call of one of the inspection operations on the values the caller holds
InspectStep(op) ==
    \E e \in NonNil(heap), e2 \in PlainValues, k \in {"k"}, n \in {MaxDepth} :
        /\ heap' = CASE op = "Error" -> ErrorCall(heap, e).heap
                     [] op = "Cause" -> CauseCall(heap, e).heap
                     [] op = "IsEqual" -> IsEqualCall(heap, e, e2).heap
                     [] op = "GetData" -> GetDataCall(heap, e, k).heap
                     [] op = "Stack" -> StackCall(heap, e).heap
                     [] op = "Details" -> DetailsCall(heap, e, n).heap
        /\ last' = Call(op, NIL, NIL)
        /\ UNCHANGED <<masked, written, race>>

\* a caller takes Stack(err) and strips the paths for display
TransformStep ==
    \E err \in ErrorValues(heap) :
        /\ heap' = transformStack(heap, Stack(heap, err)).heap
        /\ last' = Call("transformStack", NIL, NIL)
        /\ UNCHANGED <<masked, written>>
        /\ UNCHANGED race

\* ------------------------------------------------- concurrent SetData
\* Two goroutines call SetData(x, key, value) on the same *xerr x with
\* different keys and no lock.  Each call is the steps of the code: the test
\* x.data == nil, the assignment x.data = make(...), and x.data[name] = value,
\* which loads the map x.data refers to and then assigns into that map.
\* race.cur names the map object x.data refers to (0: the one it had before
\* the calls, t: the one goroutine t made), race.held[t] the object
\* goroutine t loaded; a map x.data no longer refers to is garbage, and an
\* assignment into it is seen by nobody.  race.made and race.overlap record
\* who made a map and whether a goroutine ran while the other was inside its
\* call.
KeyOf(t) == IF t = 1 THEN "k" ELSE "K"

Other(t) == CHOOSE u \in Threads : u # t

\* the record of a step of goroutine t
Stepped(t, pc) ==
    [race EXCEPT !.pc[t] = pc,
                 !.overlap = @ \/ race.pc[Other(t)] \in {"make", "load", "assign"}]

\* both goroutines are handed the same *xerr and are about to call SetData
RaceStart ==
    /\ race.target = 0
    /\ \E i \in 1..Len(heap) :
          race' = [NoRace EXCEPT !.target = i, !.pc = [t \in Threads |-> "test"]]
    /\ UNCHANGED <<heap, last, masked, written>>

\* if x.data == nil
RaceTest(t) ==
    /\ race.pc[t] = "test"
    /\ race' = Stepped(t, IF heap[race.target].data.alloc THEN "load" ELSE "make")
    /\ UNCHANGED <<heap, last, masked, written>>

\* x.data = make(map[string]interface{})
RaceMake(t) ==
    /\ race.pc[t] = "make"
    /\ heap' = [heap EXCEPT ![race.target].data = MakeData]
    /\ race' = [Stepped(t, "load") EXCEPT !.cur = t, !.made = @ \cup {t}]
    /\ UNCHANGED <<last, masked, written>>

\* x.data[name] = value: the map operand x.data is evaluated
RaceLoad(t) ==
    /\ race.pc[t] = "load"
    /\ race' = [Stepped(t, "assign") EXCEPT !.held[t] = race.cur]
    /\ UNCHANGED <<heap, last, masked, written>>

\* x.data[name] = value: the assignment into the map that was loaded
RaceAssign(t) ==
    /\ race.pc[t] = "assign"
    /\ heap' = IF race.held[t] = race.cur
               THEN [heap EXCEPT ![race.target].data = MapAssign(@, KeyOf(t), t)]
               ELSE heap
    /\ race' = Stepped(t, "done")
    /\ last' = Call("SetData", NIL, NIL)
    /\ written' = [written EXCEPT ![race.target] =
                      {p \in @ : p[1] # KeyOf(t)} \cup {<<KeyOf(t), t>>}]
    /\ UNCHANGED masked

\* both goroutines assign into the same map at once: the runtime may stop
\* the program ("concurrent map writes")
RaceFatal ==
    /\ \A t \in Threads : race.pc[t] = "assign"
    /\ race.held[1] = race.held[2]
    /\ race' = [race EXCEPT !.pc = [t \in Threads |-> "fatal"], !.overlap = TRUE]
    /\ UNCHANGED <<heap, last, masked, written>>

\* ---- Spec: construction and masking from main, any error value as err and
\* as mask (chains of causes, masks that are structured errors)
DoNew == NewStep(Msgs, MainStack)

DoErrorf == ErrorfStep(FormatCalls, MainStack)

DoExtend == ExtendStep(MainStack)

DoMask == MaskStep(ErrorValues(heap), MainStack)

Next == DoNew \/ DoErrorf \/ DoExtend \/ DoMask

Spec == Init /\ [][Next]_vars

\* ---- SpecData: construction from main and the data operations
DataNew == NewStep(Msgs, MainStack)

DataExtend == ExtendStep(MainStack)

DataSetData == SetDataStep(Keys, DataValues)

NextData == DataNew \/ DataExtend \/ DataSetData

SpecData == Init /\ [][NextData]_vars

\* ---- SpecPublic: masks that are plain errors, with stacks and data varying
PubNew == NewStep(Msgs, EndStacks)

PubMask == MaskStep(PlainValues, EndStacks)

PubSetData == SetDataStep({"k"}, {1})

NextPublic == PubNew \/ PubMask \/ PubSetData

SpecPublic == Init /\ [][NextPublic]_vars

\* ---- SpecStack: construction from callers at every depth, and callers that
\* transform the stacks they obtained
StkNew == NewStep({<<"B">>}, CallerStacks)

StkErrorf == ErrorfStep({[format |-> <<"%v">>, args |-> <<(<<"A">>)>>]}, MainStack)

StkExtend == ExtendStep(EndStacks)

StkMask == MaskStep({NIL}, MainStack)

StkTransform == TransformStep

NextStack == StkNew \/ StkErrorf \/ StkExtend \/ StkMask \/ StkTransform

SpecStack == Init /\ [][NextStack]_vars

\* ---- SpecDetails: errors with stacks of every depth, chains of causes and
\* plain masks, as Details renders them
DetNew == NewStep({<<"A">>}, CallerStacks)

DetExtend == ExtendStep(MainStack)

DetMask == MaskStep(PlainValues, MainStack)

NextDetails == DetNew \/ DetExtend \/ DetMask

SpecDetails == Init /\ [][NextDetails]_vars

\* ---- SpecWrap: the iteration with Wrap and Wrapf, and plain masks
WrNew == NewStep({<<"A">>}, MainStack)

WrWrap == WrapStep({<<"B">>}, MainStack)

WrWrapf == WrapfStep({[format |-> <<"B", "%v">>, args |-> <<(<<"A">>)>>]},
                     MainStack)

WrMask == MaskStep({Plain(<<"B">>)}, MainStack)

NextWrap == WrNew \/ WrWrap \/ WrWrapf \/ WrMask

SpecWrap == Init /\ [][NextWrap]_vars

\* ---- SpecAll: New, Extend, Mask with nil or any structured error as mask,
\* and SetData
AllNew == NewStep({<<"A">>}, MainStack)

AllExtend == ExtendStep(MainStack)

AllMask == MaskStep(ErrorValues(heap) \ PlainErrors, MainStack)

AllSetData == SetDataStep({"k"}, {1})

NextAll == AllNew \/ AllExtend \/ AllMask \/ AllSetData

SpecAll == Init /\ [][NextAll]_vars

\* ---- SpecRace: errors made by New and Extend, data set by one caller, and
\* then two goroutines calling SetData on one of them
RcNew == NewStep({<<"A">>}, MainStack)

RcExtend == ExtendStep(MainStack)

RcSetData == race.target = 0 /\ SetDataStep({"k"}, {2})

RcStart == RaceStart

RcTest == \E t \in Threads : RaceTest(t)

RcMake == \E t \in Threads : RaceMake(t)

RcLoad == \E t \in Threads : RaceLoad(t)

RcAssign == \E t \in Threads : RaceAssign(t)

RcFatal == RaceFatal

NextRace ==
    \/ RcNew \/ RcExtend \/ RcSetData \/ RcStart
    \/ RcTest \/ RcMake \/ RcLoad \/ RcAssign \/ RcFatal

SpecRace == Init /\ [][NextRace]_vars

\* ---- SpecInspect: errors with chains, plain masks and data, and callers
\* that inspect them
InsNew == NewStep({<<"A">>}, MainStack)

InsExtend == ExtendStep(MainStack)

InsMask == MaskStep({Plain(<<"B">>)}, MainStack)

InsSetData == SetDataStep({"k"}, {1})

InsError == InspectStep("Error")

InsCause == InspectStep("Cause")

InsIsEqual == InspectStep("IsEqual")

InsGetData == InspectStep("GetData")

InsStack == InspectStep("Stack")

InsDetails == InspectStep("Details")

NextInspect ==
    \/ InsNew \/ InsExtend \/ InsMask \/ InsSetData
    \/ InsError \/ InsCause \/ InsIsEqual \/ InsGetData \/ InsStack \/ InsDetails

SpecInspect == Init /\ [][NextInspect]_vars

\* ================================================================ claims
\* C1: Extend(nil) and Mask(nil, m), for every m, return nil and create no
\* error object; for every non-nil err, Extend(err) and Mask(err, m) return a
\* non-nil error.
C1_NilPropagation ==
    \A err \in ErrorValues(heap), c \in MainStack :
        /\ \A e \in {Extend(heap, err, c)} :
              IF err = NIL THEN e.ret = NIL /\ e.heap = heap ELSE e.ret # NIL
        /\ \A m \in ErrorValues(heap) :
              \A k \in {Mask(heap, err, m, c)} :
                 IF err = NIL THEN k.ret = NIL /\ k.heap = heap ELSE k.ret # NIL

\* a call of Extend or Mask on nil has returned nil while errors exist
C1_Witness ==
    /\ last.op \in {"Extend", "Mask"}
    /\ last.ret = NIL
    /\ Len(heap) >= 1

\* C2: for every non-nil err and non-nil mask m, e = Mask(err, m) has the
\* public message of m (e.Error() ends as m.Error() does), Cause(e) is err
\* itself when err is plain and err's existing cause when err is structured,
\* and IsEqual(e, p) is true for every plain p whose message is the message
\* of that cause.
C2_MaskKeepsCause ==
    \A err \in NonNil(heap), m \in NonNil(heap), c \in MainStack :
        \A r \in {Mask(heap, err, m, c)} :
            /\ Error(r.heap, r.ret) = Error(r.heap, m)
            /\ m.kind = "plain" => Error(r.heap, r.ret) = Returns(m.msg)
            /\ Cause(r.heap, r.ret)
                  = (IF IsXerr(err) THEN heap[err.id].cause ELSE err)
            /\ \A p \in PlainErrors :
                  Error(r.heap, Cause(r.heap, r.ret)) = Returns(p.msg)
                      => IsEqual(r.heap, r.ret, p) = [st |-> "ok", val |-> TRUE]

\* Mask has returned a structured error whose mask and cause are plain errors
\* with different messages
C2_Witness ==
    /\ last.op = "Mask"
    /\ IsXerr(last.ret)
    /\ LET x == heap[last.ret.id]
       IN  /\ x.mask.kind = "plain"
           /\ x.cause.kind = "plain"
           /\ x.mask.msg # x.cause.msg
           /\ Error(heap, last.ret) = Returns(x.mask.msg)

\* C3: for every structured error x, x.Error() is the mask's message when a
\* mask is set, and otherwise the resolved message of the cause (the cause's
\* own Error(), which recurses when the cause is structured).
C3_MessageResolution ==
    \A i \in 1..Len(heap) :
        LET x == heap[i]
        IN  /\ x.mask # NIL => Error(heap, Ref(i)) = Error(heap, x.mask)
            /\ x.mask.kind = "plain" => Error(heap, Ref(i)) = Returns(x.mask.msg)
            /\ x.mask = NIL => Error(heap, Ref(i)) = Error(heap, x.cause)
            /\ (x.mask = NIL /\ x.cause.kind = "plain")
                  => Error(heap, Ref(i)) = Returns(x.cause.msg)

\* an unmasked structured error whose cause is a structured error that is
\* masked: its message is resolved through the cause
C3_Witness ==
    \E i \in 1..Len(heap) :
        /\ heap[i].mask = NIL
        /\ IsXerr(heap[i].cause)
        /\ heap[heap[i].cause.id].mask.kind = "plain"
        /\ heap[heap[i].cause.id].cause.kind = "plain"
        /\ heap[heap[i].cause.id].mask.msg # heap[heap[i].cause.id].cause.msg
        /\ Error(heap, Ref(i)) = Returns(heap[heap[i].cause.id].mask.msg)

\* C4: after any sequence of Mask calls on a structured error x, x.Error() is
\* the message of the most recently applied mask when that mask is non-nil,
\* and is the cause's own message when the most recent call was Mask(x, nil)
\* (or none was applied).
C4_LastMaskWins ==
    \A i \in 1..Len(heap) :
        IF masked[i] # NIL
        THEN /\ Error(heap, Ref(i)) = Error(heap, masked[i])
             /\ masked[i].kind = "plain"
                   => Error(heap, Ref(i)) = Returns(masked[i].msg)
        ELSE Error(heap, Ref(i)) = Error(heap, heap[i].cause)

\* Mask has just replaced a non-nil mask of a structured error by a mask with
\* another message
C4_Witness ==
    /\ last.op = "Mask"
    /\ IsXerr(last.ret)
    /\ last.prev.kind = "plain"
    /\ masked[last.ret.id].kind = "plain"
    /\ masked[last.ret.id].msg # last.prev.msg
    /\ Error(heap, last.ret) = Returns(masked[last.ret.id].msg)

RECURSIVE InnermostCause(_, _)
\* the plain error at the end of the chain of cause fields of e
InnermostCause(h, e) == IF IsXerr(e) THEN InnermostCause(h, h[e.id].cause) ELSE e

\* C5: for any two non-nil errors a and b built by New, Extend and Mask,
\* chains included, IsEqual(a, b) is true if and only if the message of a's
\* innermost cause equals the message of b's innermost cause, whatever the
\* masks and stacks are.
C5_IsEqualUltimateCause ==
    \A a \in NonNil(heap), b \in NonNil(heap) :
        IsEqual(heap, a, b) =
            [st |-> "ok",
             val |-> (InnermostCause(heap, a).msg = InnermostCause(heap, b).msg)]

\* C6: IsEqual(nil, nil) is true; IsEqual(nil, x) and IsEqual(x, nil) are
\* false for every non-nil x, structured or plain.
C6_IsEqualNil ==
    /\ IsEqual(heap, NIL, NIL) = [st |-> "ok", val |-> TRUE]
    /\ \A x \in NonNil(heap) :
          /\ IsEqual(heap, NIL, x) = [st |-> "ok", val |-> FALSE]
          /\ IsEqual(heap, x, NIL) = [st |-> "ok", val |-> FALSE]

\* a masked structured error exists, and IsEqual tells it from nil
C6_Witness ==
    \E i \in 1..Len(heap) :
        /\ heap[i].mask # NIL
        /\ IsEqual(heap, NIL, Ref(i)) = [st |-> "ok", val |-> FALSE]
        /\ IsEqual(heap, Ref(i), NIL) = [st |-> "ok", val |-> FALSE]

\* what a map holding the latest written values answers for key k
Latest(w, k) ==
    IF \E p \in w : p[1] = k
    THEN [value |-> (CHOOSE p \in w : p[1] = k)[2], ok |-> TRUE]
    ELSE [value |-> NilValue, ok |-> FALSE]

\* C7: after any sequence of SetData calls on a structured error e that
\* started without a data container, GetData(e, k) returns (v, true) with v
\* the value of the most recent SetData(e, k, v) for exactly that key, and
\* not-found for every key never set, in whatever order the keys were set.
C7_DataIsMap ==
    \A i \in 1..Len(heap), k \in Keys :
        GetData(heap, Ref(i), k) = Latest(written[i], k)

\* SetData has just acted on an error that now holds both keys, which differ
\* only in case, with different values, and a key of another error was never
\* set
C7_Witness ==
    /\ last.op = "SetData"
    /\ \E i \in 1..Len(heap), j \in 1..Len(heap) :
          /\ GetData(heap, Ref(i), "k") = [value |-> 1, ok |-> TRUE]
          /\ GetData(heap, Ref(i), "K") = [value |-> 2, ok |-> TRUE]
          /\ GetData(heap, Ref(j), "k") = [value |-> NilValue, ok |-> FALSE]

RECURSIVE ChainLookup(_, _, _)
\* the value of the outermost node, from e along the cause fields, that
\* holds key k
ChainLookup(h, e, k) ==
    IF ~IsXerr(e) THEN [value |-> NilValue, ok |-> FALSE]
    ELSE IF MapIndex(h[e.id].data, k).ok THEN MapIndex(h[e.id].data, k)
    ELSE ChainLookup(h, h[e.id].cause, k)

\* C8: GetData(b, k) searches b first and, when k is absent there, goes on
\* with the cause, returning the value of the outermost node holding k;
\* not-found only when the chain ends at a plain error without k.
C8_DataFallsThrough ==
    \A i \in 1..Len(heap), k \in Keys :
        GetData(heap, Ref(i), k) = ChainLookup(heap, Ref(i), k)

\* C9: for every error value reachable by New, Extend, Mask (any existing
\* error, the error itself included, as err or mask), Error() terminates and
\* returns a message.
C9_ErrorTotal ==
    \A e \in NonNil(heap) : Error(heap, e).st = "ok"

\* C10: two structured errors with the same mask message have the same
\* Error(), whatever their causes, stacks and data are; two unmasked
\* structured errors with the same cause message have the same Error(),
\* whatever their stacks and data are.
C10_PublicMessageOnly ==
    \A i \in 1..Len(heap), j \in 1..Len(heap) :
        /\ ( /\ heap[i].mask # NIL
             /\ heap[j].mask # NIL
             /\ Error(heap, heap[i].mask) = Error(heap, heap[j].mask) )
              => Error(heap, Ref(i)) = Error(heap, Ref(j))
        /\ ( /\ heap[i].mask = NIL
             /\ heap[j].mask = NIL
             /\ Error(heap, heap[i].cause) = Error(heap, heap[j].cause) )
              => Error(heap, Ref(i)) = Error(heap, Ref(j))

\* two errors with the same mask message and different causes, stacks and
\* data, answering with the mask message
C10_Witness ==
    \E i \in 1..Len(heap), j \in 1..Len(heap) :
        /\ heap[i].mask.kind = "plain"
        /\ heap[j].mask = heap[i].mask
        /\ heap[i].cause # heap[j].cause
        /\ heap[i].stack # heap[j].stack
        /\ heap[i].data # heap[j].data
        /\ heap[i].mask.msg # heap[i].cause.msg
        /\ Error(heap, Ref(i)) = Returns(heap[i].mask.msg)
        /\ Error(heap, Ref(j)) = Returns(heap[i].mask.msg)

\* C11: Cause unwraps one level: Cause(x) of a structured x is exactly x's
\* cause field, which is the very error x was built around even when that
\* error is structured itself; Cause of a plain error or of nil is the
\* argument.
C11_CauseShallow ==
    /\ \A e \in PlainValues : Cause(heap, e) = e
    /\ \A i \in 1..Len(heap) : Cause(heap, Ref(i)) = heap[i].cause
    /\ \A err \in NonNil(heap), c \in MainStack :
          \A r \in {Extend(heap, err, c)} : Cause(r.heap, r.ret) = err

\* Extend has wrapped a structured error: Cause of the result is that
\* structured error, whose own cause is the plain error one level further
C11_Witness ==
    /\ last.op = "Extend"
    /\ IsXerr(last.ret)
    /\ IsXerr(Cause(heap, last.ret))
    /\ Cause(heap, last.ret) = Ref(last.ret.id - 1)
    /\ Cause(heap, Cause(heap, last.ret)).kind = "plain"

\* C12: Extend of a structured error returns its argument itself and changes
\* nothing (no new error object, so the stack of the first capture stays);
\* only a plain error is converted into a new structured error.
C12_ExtendIdempotent ==
    \A err \in NonNil(heap), c \in MainStack :
        \A r \in {Extend(heap, err, c)} :
            IF IsXerr(err)
            THEN r.ret = err /\ r.heap = heap
            ELSE /\ r.ret = Ref(Len(heap) + 1)
                 /\ r.heap = Append(heap, r.heap[Len(heap) + 1])
                 /\ r.heap[Len(heap) + 1].cause = err

\* r is the outcome of a call from heap h that made a new structured error
\* without a mask, whose cause carries message m and whose Error() is m
FreshWith(h, r, m) ==
    /\ r.ret = Ref(Len(h) + 1)
    /\ r.heap = Append(h, r.heap[Len(h) + 1])
    /\ r.heap[Len(h) + 1].mask = NIL
    /\ Error(r.heap, Cause(r.heap, r.ret)) = Returns(m)
    /\ Error(r.heap, r.ret) = Returns(m)

\* C13: New(m), Errorf(format, args...), Extend(p) and Mask(p, nil), for a
\* non-nil plain error p, each return a new structured error with no mask,
\* whose cause message is the given message (m, the formatted text, p's
\* message) and whose Error() is that cause message.
C13_FreshConstruction ==
    \A c \in MainStack :
        /\ \A m \in Msgs : FreshWith(heap, New(heap, m, c), m)
        /\ FreshWith(heap, Errorf(heap, <<"%v">>, <<(<<"A">>)>>, c), <<"A">>)
        /\ FreshWith(heap, Errorf(heap, <<"B">>, <<>>, c), <<"B">>)
        /\ FreshWith(heap, Errorf(heap, <<"A", "%v">>, <<(<<"B">>)>>, c),
                     <<"A", "B">>)
        /\ \A p \in PlainErrors :
              /\ FreshWith(heap, Extend(heap, p, c), p.msg)
              /\ FreshWith(heap, Mask(heap, p, NIL, c), p.msg)

\* Errorf has just returned a new unmasked error, beside an older one, whose
\* message is the formatted text "A" and not the format
C13_Witness ==
    /\ last.op = "Errorf"
    /\ last.ret = Ref(Len(heap))
    /\ Len(heap) > 1
    /\ heap[Len(heap)].mask = NIL
    /\ Cause(heap, last.ret) = Plain(<<"A">>)
    /\ Error(heap, last.ret) = Returns(<<"A">>)

\* C14: Mask(err, m) on a structured err, m non-nil, returns the very same
\* error value: no error object is made and no stack captured, the mask field
\* of err becomes m and nothing else changes in err or in any other error;
\* the data mapping of the result is the one err had before the call.
C14_MaskInPlace ==
    \A i \in 1..Len(heap), m \in NonNil(heap), c \in MainStack :
        \A r \in {Mask(heap, Ref(i), m, c)} :
            /\ r.ret = Ref(i)
            /\ r.heap = [j \in 1..Len(heap) |->
                            IF j = i THEN [heap[j] EXCEPT !.mask = m]
                            ELSE heap[j]]
            /\ r.heap[i].stack = heap[i].stack
            /\ \A k \in Keys : GetData(r.heap, r.ret, k) = GetData(heap, Ref(i), k)

\* Mask has just replaced the mask of a structured error that holds data and
\* the stack of a deep caller: the same error, with its data, its stack and
\* the new mask
C14_Witness ==
    /\ last.op = "Mask"
    /\ IsXerr(last.ret)
    /\ last.prev # NIL
    /\ heap[last.ret.id].mask \notin {NIL, last.prev}
    /\ GetData(heap, last.ret, "k") = [value |-> 1, ok |-> TRUE]
    /\ heap[last.ret.id].stack = CallerFrames(MaxDepth)
    /\ Len(heap) = 1

\* C15, as stated: Mask(err, nil) on a structured err returns err with every
\* field, a mask set earlier included, the same after the call as before.
C15_NilMaskKeepsAll ==
    \A i \in 1..Len(heap), c \in MainStack :
        Mask(heap, Ref(i), NIL, c) = [heap |-> heap, ret |-> Ref(i)]

\* C15, amended: Mask(err, nil) on a structured err returns the same err with
\* its mask cleared, a mask set earlier included, and every other field of
\* err and every other error as before; Error() of err is its cause's again.
\* The call changes nothing only when err had no mask.
C15_NilMaskClears ==
    \A i \in 1..Len(heap), c \in MainStack :
        \A r \in {Mask(heap, Ref(i), NIL, c)} :
            /\ r.ret = Ref(i)
            /\ r.heap = [j \in 1..Len(heap) |->
                            IF j = i THEN [heap[j] EXCEPT !.mask = NIL]
                            ELSE heap[j]]
            /\ Error(r.heap, r.ret) = Error(r.heap, heap[i].cause)
            /\ (r.heap = heap) = (heap[i].mask = NIL)

\* Mask(err, nil) has just cleared the mask of a structured error whose
\* cause has another message than the mask had: Error() is the cause's
C15_Witness ==
    /\ last.op = "Mask"
    /\ IsXerr(last.ret)
    /\ last.prev.kind = "plain"
    /\ heap[last.ret.id].mask = NIL
    /\ heap[last.ret.id].cause.kind = "plain"
    /\ heap[last.ret.id].cause.msg # last.prev.msg
    /\ Error(heap, last.ret) = Returns(heap[last.ret.id].cause.msg)

\* C16: on nil and on every plain error, GetData returns (nil, false) for
\* every key, SetData changes nothing and ends normally, and Stack returns
\* the nil sequence.
C16_NonStructuredDegrades ==
    \A e \in PlainValues :
        /\ \A k \in Keys :
              /\ GetData(heap, e, k) = [value |-> NilValue, ok |-> FALSE]
              /\ \A v \in DataValues : SetData(heap, e, k, v) = heap
        /\ Stack(heap, e) = NilSlice
        /\ Elements(heap, Stack(heap, e)) = <<>>

\* SetData has just been called while no structured error holds data: it was
\* called on nil or on a plain error, and left every error without data
C16_Witness ==
    /\ last.op = "SetData"
    /\ Len(heap) = MaxNodes
    /\ \A i \in 1..Len(heap) :
          /\ heap[i].data = NilData
          /\ Stack(heap, Ref(i)) # NilSlice
    /\ Stack(heap, heap[1].cause) = NilSlice

\* the locations stored in the error a construction has returned
Captured(r) == Elements(r.heap, Stack(r.heap, r.ret))

\* s is the call stack c as the library is meant to capture it: c itself,
\* from the immediate caller to main, without a frame of the library
FromCaller(s, c) ==
    /\ s = c
    /\ Len(s) = Len(c)
    /\ s[1] = Frame(Len(c))
    /\ s[Len(s)] = Frame(1)
    /\ \A j \in 1..Len(s) : s[j].File # LibFrame("getStack").File

\* C17: for New, Errorf, Extend and Mask on a plain error, called from a
\* caller at any depth, the captured sequence is the call stack from the
\* innermost frame to the outermost with exactly the library's own frames
\* (getStack and the construction operation) left out: its first entry is
\* the immediate caller, its last entry is main, where the capture ends.
C17_StackFromCaller ==
    \A c \in CallerStacks :
        /\ \A m \in Msgs : FromCaller(Captured(New(heap, m, c)), c)
        /\ \A f \in FormatCalls :
              FromCaller(Captured(Errorf(heap, f.format, f.args, c)), c)
        /\ \A err \in NonNil(heap) :
              FromCaller(Captured(Extend(heap, err, c)), c)
        /\ \A p \in PlainErrors, m \in PlainValues :
              FromCaller(Captured(Mask(heap, p, m, c)), c)

\* Extend, called from the deepest caller, has just returned an error beside
\* one made from main: each holds the stack of its own caller
C17_Witness ==
    /\ last.op = "Extend"
    /\ last.ret = Ref(Len(heap))
    /\ Len(heap) > 1
    /\ Captured([heap |-> heap, ret |-> last.ret]) = CallerFrames(MaxDepth)
    /\ Captured([heap |-> heap, ret |-> Ref(1)]) = CallerFrames(1)

\* the values of maxStack handed to Details
MaxStackValues == (0 - 1)..(MaxDepth + 1)

\* C18: when a caller modifies the sequence it obtained from Stack(err), as
\* transformStack does to strip the paths, the stack stored in err is not
\* changed: Stack(err) and Details(err, n) afterwards show the entries as
\* they were before the modification.
C18_StackOfRecordKept ==
    \A err \in ErrorValues(heap) :
        \A t \in {transformStack(heap, Stack(heap, err))} :
            /\ Elements(t.heap, Stack(t.heap, err))
                  = Elements(heap, Stack(heap, err))
            /\ \A n \in MaxStackValues :
                  Details(t.heap, err, n) = Details(heap, err, n)

\* C19: Details(nil, n) is the empty string and Details(p, n) is exactly the
\* message of p, for every plain error p and every n.
C19_DetailsOfNonStructured ==
    \A n \in MaxStackValues :
        /\ Details(heap, NIL, n) = Returns(<<>>)
        /\ \A p \in PlainErrors : Details(heap, p, n) = Returns(p.msg)

\* a structured error with a stack exists whose Details has lines, while
\* Details of its plain cause is the bare message and Details of nil is empty
C19_Witness ==
    \E i \in 1..Len(heap) :
        /\ heap[i].cause.kind = "plain"
        /\ Len(heap[i].stack) = MaxDepth
        /\ Details(heap, heap[i].cause, MaxDepth) = Returns(heap[i].cause.msg)
        /\ Len(Split(Details(heap, Ref(i), MaxDepth).msg, "\n")) = MaxDepth + 3
        /\ Details(heap, NIL, MaxDepth) = Returns(<<>>)

\* the positions of the lines that begin with the given label
LinesWith(ls, label) == {j \in 1..Len(ls) : ls[j] # <<>> /\ ls[j][1] = label}

\* C20: whenever Details(x, n) of a structured x returns, which it does when
\* the Error() of the cause and of the mask return, its output contains one
\* line "[ERROR] <cause message>", and a line "[MASK ERROR] <mask message>"
\* if and only if a mask is set and its message differs textually from the
\* cause's; the mask line, when present, directly follows the error line.
C20_DetailsMaskLine ==
    \A i \in 1..Len(heap), n \in {0, MaxDepth} :
        \A x \in {heap[i]} :
        \A c \in {Error(heap, x.cause)}, m \in {Error(heap, x.mask)} :
        \A shown \in {x.mask # NIL /\ m.msg # c.msg} :
        \A d \in {Details(heap, Ref(i), n)} :
            IF c.st = "ok" /\ (x.mask = NIL \/ m.st = "ok")
            THEN /\ d.st = "ok"
                 /\ \A ls \in {Split(d.msg, "\n")} :
                       /\ LinesWith(ls, "[ERROR] ") = {2}
                       /\ ls[2] = <<"[ERROR] ">> \o c.msg
                       /\ x.cause.kind = "plain"
                             => ls[2] = <<"[ERROR] ">> \o x.cause.msg
                       /\ LinesWith(ls, "[MASK ERROR] ")
                             = (IF shown THEN {3} ELSE {})
                       /\ shown => ls[3] = <<"[MASK ERROR] ">> \o m.msg
            ELSE d.st # "ok"

\* Mask has just acted, and two errors with the same cause message exist:
\* one masked with another text, whose Details has the mask line right after
\* the error line, and one masked with the same text, whose Details has none
C20_Witness ==
    /\ last.op = "Mask"
    /\ \E i \in 1..Len(heap), j \in 1..Len(heap) :
          /\ heap[i].cause = Plain(<<"A">>)
          /\ heap[i].mask = Plain(<<"B">>)
          /\ Details(heap, Ref(i), 0) =
                Returns(<<"\n", "[ERROR] ", "A", "\n", "[MASK ERROR] ", "B",
                          "\n", "[STACK]:">>)
          /\ heap[j].cause.kind = "plain"
          /\ heap[j].mask # NIL
          /\ heap[j].mask.msg = heap[j].cause.msg
          /\ Details(heap, Ref(j), 0) =
                Returns(<<"\n", "[ERROR] ">> \o heap[j].cause.msg
                            \o <<"\n", "[STACK]:">>)

\* the smaller of two integers
Min(a, b) == IF a < b THEN a ELSE b

\* the lines of a Details output that follow its "[STACK]:" header
AfterHeader(ls) ==
    LET h == CHOOSE j \in LinesWith(ls, "[STACK]:") : TRUE
    IN  SubSeq(ls, h + 1, Len(ls))

\* an entry as Details is to print it: <function> [<file>:<line>]
Entry(location) ==
    location.Function \o <<" [">> \o location.File \o <<":">>
        \o Itoa(location.Line) \o <<"]">>

\* the output of Details has one "[STACK]:" header, followed by exactly the
\* first k entries of stack in their order
StackSection(ls, stack, k) ==
    /\ Cardinality(LinesWith(ls, "[STACK]:")) = 1
    /\ AfterHeader(ls) = [j \in 1..k |-> Entry(stack[j])]

\* a heap holding one more error, which has no stack
WithStackless(h) == Alloc(h, Xerr(NilData, Plain(<<"A">>), NIL, <<>>))

\* C21, as stated: for every structured error and every maxLines, the
\* "[STACK]:" header is in the output if and only if the stack is not empty,
\* and the number of entries after it is min(maxLines, capturedLength).
C21_StackSectionMin ==
    \A i \in 1..Len(heap), n \in MaxStackValues :
        \A ls \in {Split(Details(heap, Ref(i), n).msg, "\n")} :
            /\ (LinesWith(ls, "[STACK]:") # {}) = (Len(heap[i].stack) > 0)
            /\ Len(heap[i].stack) > 0
                  => Len(AfterHeader(ls)) = Min(n, Len(heap[i].stack))

\* C21, amended: the header is in the output if and only if the stack is
\* not empty, and it is followed by the first min(maxLines, capturedLength)
\* entries of the stack in captured order when maxLines is not negative,
\* and by no entry when it is negative.
C21_StackSection ==
    /\ \A i \in 1..Len(heap), n \in MaxStackValues :
          \A ls \in {Split(Details(heap, Ref(i), n).msg, "\n")} :
              /\ Len(heap[i].stack) > 0
              /\ StackSection(ls, heap[i].stack,
                              IF n < 0 THEN 0 ELSE Min(n, Len(heap[i].stack)))
    /\ \A n \in MaxStackValues :
          \A w \in {WithStackless(heap)} :
              LinesWith(Split(Details(w.heap, w.ret, n).msg, "\n"),
                        "[STACK]:") = {}

\* an error captured at the deepest caller exists: Details with a limit of
\* one prints the header and the first entry only, with a limit beyond the
\* stack all the entries, and with a negative limit the header alone
C21_Witness ==
    \E i \in 1..Len(heap) :
        /\ heap[i].stack = CallerFrames(MaxDepth)
        /\ MaxDepth > 1
        /\ AfterHeader(Split(Details(heap, Ref(i), 1).msg, "\n"))
              = <<Entry(Frame(MaxDepth))>>
        /\ Len(AfterHeader(Split(Details(heap, Ref(i), MaxDepth + 1).msg, "\n")))
              = MaxDepth
        /\ AfterHeader(Split(Details(heap, Ref(i), 0 - 1).msg, "\n")) = <<>>

\* r is the outcome of wrapping err in heap h: a new structured error whose
\* cause is err and whose message is the annotation, ": " and the message
\* err had
WrappedWith(h, r, err, annotation) ==
    /\ r.ret = Ref(Len(h) + 1)
    /\ r.heap = Append(h, r.heap[Len(h) + 1])
    /\ Cause(r.heap, r.ret) = err
    /\ Message(h, err).st = "ok"
    /\ Message(r.heap, r.ret)
          = Returns(annotation \o <<": ">> \o Message(h, err).msg)

\* C22: for every non-nil err, Wrap(err, message) and Wrapf(err, format,
\* args) return a new structured error whose cause is err and whose Error()
\* is the (formatted) message, ": " and err's own resolved message; the
\* inner text stays visible, where Mask shows the mask's text alone.
C22_WrapPrefixes ==
    \A err \in NonNil(heap), c \in MainStack :
        /\ \A m \in Msgs : WrappedWith(heap, Wrap(heap, err, m, c), err, m)
        /\ WrappedWith(heap, Wrapf(heap, err, <<"B", "%v">>, <<(<<"A">>)>>, c),
                       err, <<"B", "A">>)
        /\ \A m \in Msgs :
              Message(Mask(heap, err, Plain(m), c).heap,
                      Mask(heap, err, Plain(m), c).ret) = Returns(m)

\* Wrap has just put "B" before the structured error New("A"): the message
\* of the result is "B: A", and its cause is that structured error
C22_Witness ==
    /\ last.op = "Wrap"
    /\ last.ret = Ref(Len(heap))
    /\ Len(heap) > 1
    /\ Cause(heap, last.ret) = Ref(1)
    /\ heap[1].cause = Plain(<<"A">>)
    /\ heap[1].mask = NIL
    /\ ~HasWrap(heap[1])
    /\ Message(heap, last.ret) = Returns(<<"B", ": ", "A">>)

RECURSIVE CauseWalk(_, _, _)
\* following the cause links from e ends at a plain error without coming
\* back to a structured error of `seen` or visiting one twice
CauseWalk(h, e, seen) ==
    IF e.kind = "plain" THEN TRUE
    ELSE IF e.kind = "nil" THEN FALSE
    ELSE IF e.id \in seen THEN FALSE
    ELSE CauseWalk(h, h[e.id].cause, seen \cup {e.id})

C24_CauseAndStackWriteOnce ==
    [][ /\ Len(heap') >= Len(heap)
        /\ \A i \in 1..Len(heap') : heap'[i].cause # NIL
        /\ \A i \in 1..Len(heap) :
              /\ heap'[i].cause = heap[i].cause
              /\ heap'[i].stack = heap[i].stack ]_vars

\* SetData has just acted on an error that was masked in place and extended
\* after its construction: its cause is the plain error it was made from and
\* its stack the one captured then
C24_Witness ==
    /\ last.op = "SetData"
    /\ Len(heap) = 2
    /\ heap[2].cause = Ref(1)
    /\ heap[1].mask = Ref(2)
    /\ heap[1].data.alloc
    /\ heap[1].cause = Plain(<<"A">>)
    /\ heap[1].stack = CallerFrames(1)

\* both goroutines have returned from SetData
BothDone == \A t \in Threads : race.pc[t] = "done"

\* GetData finds the key and value goroutine t has set
Found(t) ==
    GetData(heap, Ref(race.target), KeyOf(t)) = [value |-> t, ok |-> TRUE]

\* C25: without synchronization, two goroutines calling SetData with
\* different keys on the same structured error can leave one of the keys not
\* found after both calls have returned, which takes both of them seeing the
\* container absent and each making its own; when the two calls are
\* serialized both keys are found, and in every case the key set by the
\* goroutine that made the container last is found.
C25_SetDataRace ==
    BothDone =>
        /\ ~race.overlap => \A t \in Threads : Found(t)
        /\ \E t \in Threads : Found(t)
        /\ (\E t \in Threads : ~Found(t)) => race.made = Threads /\ race.overlap
        /\ race.cur # 0 => Found(race.cur)

\* both calls have returned on an error that had no data container, both
\* made one, and the key of goroutine 1 is not found while that of
\* goroutine 2 is
C25_Witness ==
    /\ BothDone
    /\ race.made = Threads
    /\ GetData(heap, Ref(race.target), KeyOf(1)) = [value |-> NilValue, ok |-> FALSE]
    /\ Found(2)
    /\ written[race.target] = {<<"k", 1>>, <<"K", 2>>}

C27_InspectionReadOnly ==
    /\ \A e \in NonNil(heap) : ErrorCall(heap, e).heap = heap
    /\ \A e \in ErrorValues(heap) :
          /\ CauseCall(heap, e).heap = heap
          /\ StackCall(heap, e).heap = heap
          /\ \A e2 \in ErrorValues(heap) : IsEqualCall(heap, e, e2).heap = heap
          /\ \A k \in Keys : GetDataCall(heap, e, k).heap = heap
          /\ \A n \in MaxStackValues : DetailsCall(heap, e, n).heap = heap
    /\ \A i \in 1..Len(heap), k \in Keys :
          heap[i].data = NilData =>
              \A r \in {GetDataCall(heap, Ref(i), k)} :
                  /\ r.ret = [value |-> NilValue, ok |-> FALSE]
                  /\ r.heap[i].data = NilData

\* GetData has just been called while a masked error holds data and the
\* error wrapping it has never had a container: it still has none
C27_Witness ==
    /\ last.op = "GetData"
    /\ Len(heap) = 2
    /\ heap[1].mask = Plain(<<"B">>)
    /\ heap[1].data = MapAssign(MakeData, "k", 1)
    /\ heap[2].cause = Ref(1)
    /\ heap[2].data = NilData
    /\ GetDataCall(heap, Ref(2), "k").ret = [value |-> NilValue, ok |-> FALSE]

\* the elements of a sequence
Range(q) == {q[j] : j \in 1..Len(q)}

\* IsEqual says that a and b are equal
Equal(a, b) == IsEqual(heap, a, b) = [st |-> "ok", val |-> TRUE]

\* C28: IsEqual is an equivalence relation over all error values, nil
\* included: IsEqual(a, a) is true, IsEqual(a, b) is IsEqual(b, a), and
\* IsEqual(a, b) and IsEqual(b, c) imply IsEqual(a, c), for every a, b, c
\* that are nil, plain or structured, masked or not, chained or not.
C28_IsEqualEquivalence ==
    \A a \in ErrorValues(heap) :
        /\ Equal(a, a)
        /\ \A b \in ErrorValues(heap) :
              /\ IsEqual(heap, a, b) = IsEqual(heap, b, a)
              /\ \A c \in ErrorValues(heap) :
                    (Equal(a, b) /\ Equal(b, c)) => Equal(a, c)

C30_DetailsInBounds ==
    \A i \in 1..Len(heap), n \in MaxStackValues :
        \A len \in {Len(heap[i].stack)}, d \in {Details(heap, Ref(i), n)} :
            /\ d.st = "ok"
            /\ 0..(Top(n, len) - 1) \subseteq 0..(len - 1)
            /\ (n <= 0 /\ len > 0) =>
                  \A ls \in {Split(d.msg, "\n")} :
                      /\ LinesWith(ls, "[STACK]:") = {Len(ls)}
                      /\ ls[Len(ls)] = <<"[STACK]:">>

\* an error with the stack of the deepest caller exists: Details with a
\* limit beyond the stack prints every entry, the last one being main, and
\* with a negative limit it ends with the header
C30_Witness ==
    \E i \in 1..Len(heap) :
        /\ heap[i].stack = CallerFrames(MaxDepth)
        /\ Details(heap, Ref(i), MaxDepth + 1).st = "ok"
        /\ Len(Split(Details(heap, Ref(i), MaxDepth + 1).msg, "\n")) = MaxDepth + 3
        /\ Split(Details(heap, Ref(i), MaxDepth + 1).msg, "\n")[MaxDepth + 3]
              = Entry(Frame(1))
        /\ Split(Details(heap, Ref(i), 0 - 1).msg, "\n")
              = <<<<>>, <<"[ERROR] ", "A">>, <<"[STACK]:">>>>

====
